---- MODULE Spec2Model ----
(***************************************************************************)
(* Model of src/main.py: the Streamlit finance dashboard.  One run of the  *)
(* script (a render pass) is walked section by section with pc; the two    *)
(* CSV files and st.session_state.chat_history persist between passes.     *)
(*                                                                         *)
(* Amounts are whole currency units.  A DataFrame is the sequence of its   *)
(* rows; a row is a record of cells; a cell is [k, s, n]:                   *)
(*   k = "date"  a datetime.date, day number n                             *)
(*   k = "num"   a float, value n                                          *)
(*   k = "str"   a str; s = "iso" is the text YYYY-MM-DD of day n,         *)
(*               s = "num" is the text of the number n, else the text s    *)
(*   k = "nan"   pandas' missing value                                     *)
(*   k = "txt"   a field of a CSV file on disk, payload as for "str"       *)
(***************************************************************************)
EXTENDS Integers, Sequences, FiniteSets, TLC

\* ---------------------------------------------------------------- bounds
MaxExpenses == 2
MaxInvestments == 2
MaxHistory == 2

\* ------------------------------------------------------------- constants
BUDGET == 1000
WindowDays == 7
Today == 20

Categories == <<"Food", "Rent", "Gym", "Fun", "Other">>
\* what the user submits: <<date, category, amount>> and <<symbol, amount>>
ExpenseInputs ==
  { <<Today - WindowDays - 1, Categories[1], 5>>,
    <<Today - WindowDays, Categories[1], 3>>,
    <<Today, Categories[2], 0>> }
InvestInputs == {<<"", 10>>, <<"aapl", 0>>, <<"aapl", 10>>, <<"na", 10>>}
Prices == {4}
TextInputs == {"", "hi"}

\* ----------------------------------------------------------------- cells
Date(d) == [k |-> "date", s |-> "", n |-> d]
Num(x) == [k |-> "num", s |-> "", n |-> x]
Str(s) == [k |-> "str", s |-> s, n |-> 0]
NaN == [k |-> "nan", s |-> "", n |-> 0]
Txt(s, n) == [k |-> "txt", s |-> s, n |-> n]

\* str.upper() on the symbols typed into the form
Upper(s) ==
  CASE s = "aapl" -> "AAPL"
    [] s = "na" -> "NA"
    [] OTHER -> s

\* DataFrame.to_csv: how one cell is written
FormatCell(v) ==
  CASE v.k = "date" -> Txt("iso", v.n)
    [] v.k = "num" -> Txt("num", v.n)
    [] v.k = "nan" -> Txt("", 0)
    [] OTHER -> Txt(v.s, v.n)

\* pandas.read_csv: the field texts read as missing (keep_default_na)
NA_VALUES == {"", "NA", "N/A", "NULL", "NaN", "nan", "null", "None", "n/a", "#N/A", "#NA", "<NA>"}

IsNA(t) == t.s \in NA_VALUES

\* pandas.read_csv: a column whose fields are all numbers or missing is a
\* float column, any other column is an object column of str; missing
\* fields are NaN in both
ParseCell(t, numeric) ==
  IF IsNA(t) THEN NaN
  ELSE IF numeric THEN Num(t.n)
  ELSE [k |-> "str", s |-> t.s, n |-> t.n]

IsNumericColumn(rows, col) ==
  \A i \in 1..Len(rows) : IsNA(rows[i][col]) \/ rows[i][col].s = "num"

FormatExpense(r) ==
  [date |-> FormatCell(r.date), category |-> FormatCell(r.category),
   amount |-> FormatCell(r.amount)]

FormatInvestment(r) ==
  [symbol |-> FormatCell(r.symbol),
   amount_invested |-> FormatCell(r.amount_invested),
   date_added |-> FormatCell(r.date_added)]

to_csv_expenses(df) ==
  [exists |-> TRUE, wellformed |-> TRUE,
   rows |-> [i \in 1..Len(df) |-> FormatExpense(df[i])]]

to_csv_investments(df) ==
  [exists |-> TRUE, wellformed |-> TRUE,
   rows |-> [i \in 1..Len(df) |-> FormatInvestment(df[i])]]

read_csv_expenses(file) ==
  [i \in 1..Len(file.rows) |->
     [date |-> ParseCell(file.rows[i].date, IsNumericColumn(file.rows, "date")),
      category |-> ParseCell(file.rows[i].category, IsNumericColumn(file.rows, "category")),
      amount |-> ParseCell(file.rows[i].amount, IsNumericColumn(file.rows, "amount"))]]

read_csv_investments(file) ==
  [i \in 1..Len(file.rows) |->
     [symbol |-> ParseCell(file.rows[i].symbol, IsNumericColumn(file.rows, "symbol")),
      amount_invested |-> ParseCell(file.rows[i].amount_invested,
                                    IsNumericColumn(file.rows, "amount_invested")),
      date_added |-> ParseCell(file.rows[i].date_added,
                               IsNumericColumn(file.rows, "date_added"))]]

\* pd.to_datetime(...).dt.date on one cell of the date column: the text of a
\* date parses, any other text raises.  (The files considered have no empty
\* or numeric date field.)
DateParses(c) == c.k = "str" /\ c.s = "iso"

to_datetime(c) == Date(c.n)

\* load_expenses: read_csv raises on a file that is not well-formed CSV (a
\* line with too many fields), to_datetime on a date it cannot parse
load_expenses_raises(file) ==
  /\ file.exists
  /\ \/ ~file.wellformed
     \/ \E i \in 1..Len(file.rows) : ~DateParses(read_csv_expenses(file)[i].date)

load_expenses(file) ==
  IF ~file.exists \/ load_expenses_raises(file) THEN <<>>
  ELSE LET df == read_csv_expenses(file)
       IN [i \in 1..Len(df) |-> [df[i] EXCEPT !.date = to_datetime(df[i].date)]]

load_investments_raises(file) == file.exists /\ ~file.wellformed

load_investments(file) ==
  IF ~file.exists \/ load_investments_raises(file) THEN <<>>
  ELSE read_csv_investments(file)

\* ------------------------------------------------------- files at start
ExpenseText(d, c, a) == [date |-> Txt("iso", d), category |-> Txt(c, 0), amount |-> Txt("num", a)]

InvestmentText(sym, a, d) ==
  [symbol |-> Txt(sym, 0), amount_invested |-> a, date_added |-> Txt("iso", d)]

File(rows) == [exists |-> TRUE, wellformed |-> TRUE, rows |-> rows]

NoFile == [exists |-> FALSE, wellformed |-> TRUE, rows |-> <<>>]

InitExpenseFiles ==
  { NoFile,
    File(<<ExpenseText(Today - WindowDays, "Food", 5)>>),
    File(<<[date |-> Txt("yesterday", 0), category |-> Txt("Rent", 0),
            amount |-> Txt("num", 5)]>>) }

InitInvestmentFiles ==
  { NoFile,
    File(<<InvestmentText("MSFT", Txt("num", 0), Today - 1)>>),
    File(<<InvestmentText("MSFT", Txt("ten", 0), Today - 1)>>),
    [exists |-> TRUE, wellformed |-> FALSE,
     rows |-> <<InvestmentText("MSFT", Txt("num", 10), Today - 1)>>] }

\* ---------------------------------------------------------------- floats
\* A float is [k, n, d]: k = "num" is the number n/d in lowest terms, d > 0;
\* k = "nan" is not-a-number, k = "inf" an infinity of sign n.  "N/A" is the
\* string the tracker puts in a row whose quote could not be fetched.
RECURSIVE GCD(_, _)
GCD(a, b) == IF b = 0 THEN a ELSE GCD(b, a % b)

Abs(x) == IF x < 0 THEN -x ELSE x

Rat(n, d) ==
  LET g == GCD(Abs(n), d)
  IN [k |-> "num", n |-> n \div g, d |-> d \div g]

F(n) == [k |-> "num", n |-> n, d |-> 1]
FNaN == [k |-> "nan", n |-> 0, d |-> 1]
FInf(sign) == [k |-> "inf", n |-> sign, d |-> 1]
NA == [k |-> "N/A", n |-> 0, d |-> 1]

IsNum(a) == a.k = "num"

\* numpy float64 arithmetic: it never raises, x/0 is inf and 0/0 is nan.
\* Prices are positive, so no operation below is handed an infinity.
FAdd(a, b) == IF IsNum(a) /\ IsNum(b) THEN Rat(a.n * b.d + b.n * a.d, a.d * b.d) ELSE FNaN

FSub(a, b) == IF IsNum(a) /\ IsNum(b) THEN Rat(a.n * b.d - b.n * a.d, a.d * b.d) ELSE FNaN

FMul(a, b) == IF IsNum(a) /\ IsNum(b) THEN Rat(a.n * b.n, a.d * b.d) ELSE FNaN

FDiv(a, b) ==
  IF ~(IsNum(a) /\ IsNum(b)) THEN FNaN
  ELSE IF b.n = 0 THEN (IF a.n = 0 THEN FNaN ELSE FInf(IF a.n > 0 THEN 1 ELSE -1))
  ELSE IF b.n > 0 THEN Rat(a.n * b.d, a.d * b.n)
  ELSE Rat(-(a.n * b.d), a.d * (-b.n))

Pow10(p) == IF p = 2 THEN 100 ELSE IF p = 4 THEN 10000 ELSE 1

\* round(x, p): to p decimals, ties to even; nan and inf stay what they are
round(x, p) ==
  IF ~IsNum(x) THEN x
  ELSE LET num == 2 * x.n * Pow10(p) + x.d
           den == 2 * x.d
           up == num \div den
           m == IF num % den = 0 /\ up % 2 = 1 THEN up - 1 ELSE up
       IN Rat(m, Pow10(p))

\* float(row['amount_invested'])
float_raises(c) == c.k = "str" /\ c.s # "num"

float(c) == IF c.k = "nan" THEN FNaN ELSE F(c.n)

\* ----------------------------------------------------------------- state
VARIABLES
  pc,               \* the section of the script the pass is about to run
  expenses_file,    \* data/expenses.csv
  investments_file, \* data/investments.csv
  chat_history,     \* st.session_state.chat_history
  submitted, date, category, amount,    \* the add_expense form
  invest_submit, symbol, invest_amount, \* the add_investment form
  user_input,       \* the chat text box
  expenses, investments,                \* the two DataFrames
  new_row, flash,   \* the row being added; the st.success / st.error shown
  weekly, total_spent, savings,
  i, prices, investment_data, total_value, total_invested,
  total_gain, total_gain_pct,
  category_totals, category_breakdown, feedback

files == <<expenses_file, investments_file>>
widgets == <<submitted, date, category, amount, invest_submit, symbol, invest_amount, user_input>>
frames == <<expenses, investments>>
adding == <<new_row, flash>>
summary == <<weekly, total_spent, savings>>
tracker == <<i, prices, investment_data, total_value, total_invested>>
totals == <<total_gain, total_gain_pct>>
advice == <<category_totals, category_breakdown, feedback>>
vars == <<pc, files, chat_history, widgets, frames, adding, summary, tracker, totals, advice>>

NoRow == [none |-> TRUE]
NoDict == [set |-> FALSE, dict |-> <<>>]

Init ==
  /\ pc = "idle"
  /\ expenses_file \in InitExpenseFiles
  /\ investments_file \in InitInvestmentFiles
  /\ chat_history = <<>>
  /\ submitted = FALSE /\ date = Today /\ category = Categories[1] /\ amount = 0
  /\ invest_submit = FALSE /\ symbol = "" /\ invest_amount = 0
  /\ user_input = ""
  /\ expenses = <<>> /\ investments = <<>>
  /\ new_row = NoRow /\ flash = ""
  /\ weekly = <<>> /\ total_spent = 0 /\ savings = BUDGET
  /\ i = 0 /\ prices = <<>> /\ investment_data = <<>>
  /\ total_value = F(0) /\ total_invested = F(0)
  /\ total_gain = NA /\ total_gain_pct = NA
  /\ category_totals = NoDict /\ category_breakdown = NoDict /\ feedback = ""

\* What a pass starts from: every name the script binds is unbound again.
FreshPass ==
  /\ expenses' = <<>> /\ investments' = <<>>
  /\ new_row' = NoRow /\ flash' = ""
  /\ weekly' = <<>> /\ total_spent' = 0 /\ savings' = BUDGET
  /\ i' = 0 /\ prices' = <<>> /\ investment_data' = <<>>
  /\ total_value' = F(0) /\ total_invested' = F(0)
  /\ total_gain' = NA /\ total_gain_pct' = NA
  /\ category_totals' = NoDict /\ category_breakdown' = NoDict /\ feedback' = ""

\* The user interacts and Streamlit runs the script again.  At most one form
\* is submitted per run; the chat box keeps whatever text it holds.
Rerun ==
  /\ pc \in {"idle", "done", "crashed"}
  /\ pc' = "load"
  /\ \/ /\ submitted' = FALSE /\ invest_submit' = FALSE
        /\ date' = Today /\ category' = Categories[1] /\ amount' = 0
        /\ symbol' = "" /\ invest_amount' = 0
     \/ /\ Len(expenses_file.rows) < MaxExpenses
        /\ submitted' = TRUE /\ invest_submit' = FALSE
        /\ \E in \in ExpenseInputs : date' = in[1] /\ category' = in[2] /\ amount' = in[3]
        /\ symbol' = "" /\ invest_amount' = 0
     \/ /\ Len(investments_file.rows) < MaxInvestments
        /\ submitted' = FALSE /\ invest_submit' = TRUE
        /\ date' = Today /\ category' = Categories[1] /\ amount' = 0
        /\ \E in \in InvestInputs : symbol' = in[1] /\ invest_amount' = in[2]
  /\ user_input' \in (IF Len(chat_history) + 2 <= MaxHistory THEN TextInputs ELSE {""})
  /\ FreshPass
  /\ UNCHANGED <<files, chat_history>>

\* lines 66-67
LoadData ==
  /\ pc = "load"
  /\ pc' = "add_expense"
  /\ expenses' = load_expenses(expenses_file)
  /\ investments' = load_investments(investments_file)
  /\ UNCHANGED <<files, chat_history, widgets, adding, summary, tracker, totals, advice>>

\* lines 71-87: the concat is done before the write is attempted
AddExpense ==
  /\ pc = "add_expense"
  /\ pc' = "weekly"
  /\ IF submitted
     THEN LET row == [date |-> Date(date), category |-> Str(category), amount |-> Num(amount)]
          IN /\ new_row' = row
             /\ expenses' = Append(expenses, row)
             /\ \E write_ok \in BOOLEAN :
                  IF write_ok
                  THEN /\ expenses_file' = to_csv_expenses(expenses')
                       /\ flash' = "Expense added!"
                  ELSE /\ expenses_file' = expenses_file
                       /\ flash' = "Error adding expense"
     ELSE UNCHANGED <<expenses, expenses_file, adding>>
  /\ UNCHANGED <<investments_file, investments, chat_history, widgets, summary, tracker, totals, advice>>

\* the week's filter with the boundary day left out
InWeek_Strict(r) == r.date.n > Today - WindowDays

\* expenses[expenses['date'] >= seven_days_ago]
InWeek(r) == r.date.n >= Today - WindowDays

RECURSIVE SumAmounts(_)
SumAmounts(df) ==
  IF df = <<>> THEN 0
  ELSE (IF df[1].amount.k = "num" THEN df[1].amount.n ELSE 0) + SumAmounts(Tail(df))

\* lines 91-95
WeeklySummary ==
  /\ pc = "weekly"
  /\ pc' = "add_investment"
  /\ weekly' = SelectSeq(expenses, InWeek)
  /\ total_spent' = SumAmounts(weekly')
  /\ savings' = BUDGET - total_spent'
  /\ UNCHANGED <<files, chat_history, widgets, frames, adding, tracker, totals, advice>>

\* lines 55-59: the file add_investment writes
add_investment_file(sym, amt) ==
  to_csv_investments(Append(load_investments(investments_file),
                            [symbol |-> Str(sym), amount_invested |-> Num(amt),
                             date_added |-> Date(Today)]))

\* lines 104-115: add_investment returns True when the row was written and
\* False when the write raised; the DataFrame is reloaded only after True
AddInvestment ==
  /\ pc = "add_investment"
  /\ pc' = "tracker"
  /\ IF invest_submit /\ symbol # "" /\ invest_amount > 0
     THEN /\ new_row' = [symbol |-> Str(Upper(symbol)), amount_invested |-> Num(invest_amount),
                         date_added |-> Date(Today)]
          /\ \E write_ok \in BOOLEAN :
               IF write_ok
               THEN /\ investments_file' = add_investment_file(Upper(symbol), invest_amount)
                    /\ flash' = "Investment added!"
                    /\ investments' = load_investments(investments_file')
               ELSE /\ investments_file' = investments_file
                    /\ flash' = "Error adding investment"
                    /\ investments' = investments
     ELSE UNCHANGED <<investments, investments_file, adding>>
  /\ i' = 1
  /\ UNCHANGED <<expenses_file, expenses, chat_history, widgets, summary, prices,
                 investment_data, total_value, total_invested, totals, advice>>

\* lines 137-145: the row of an investment whose quote was fetched
FetchedRow(sym, invested, price) ==
  LET approx_shares == FDiv(invested, price)
      current_value == FMul(price, approx_shares)
  IN [Symbol |-> sym,
      Invested |-> round(invested, 2),
      ApproxShares |-> round(approx_shares, 4),
      CurrentPrice |-> round(price, 2),
      CurrentValue |-> round(current_value, 2),
      GainLoss |-> round(FSub(current_value, invested), 2),
      GainLossPct |-> round(FMul(FDiv(FSub(current_value, invested), invested), F(100)), 2)]

\* the failed row with the invested amount marked unavailable as well
FailedRow_NoAmount(sym, invested) ==
  [Symbol |-> sym, Invested |-> NA, ApproxShares |-> NA,
   CurrentPrice |-> NA, CurrentValue |-> NA, GainLoss |-> NA, GainLossPct |-> NA]

\* lines 150-158: the row of an investment whose quote could not be fetched
FailedRow(sym, invested) ==
  [Symbol |-> sym, Invested |-> round(invested, 2), ApproxShares |-> NA,
   CurrentPrice |-> NA, CurrentValue |-> NA, GainLoss |-> NA, GainLossPct |-> NA]

\* lines 130-131: what yf.Ticker(symbol).history(...) can come to, NA standing
\* for any exception; a symbol that is not a str always raises
Quotes(sym) == IF sym.k = "str" THEN {NA} \cup {F(p) : p \in Prices} ELSE {NA}

\* lines 125-159, one iteration of the loop.  float() is outside the try:
\* when it raises the script stops.
TrackerRow ==
  /\ pc = "tracker"
  /\ i <= Len(investments)
  /\ LET row == investments[i]
     IN IF float_raises(row.amount_invested)
        THEN /\ pc' = "crashed"
             /\ UNCHANGED tracker
        ELSE LET invested == float(row.amount_invested)
             IN /\ pc' = "tracker"
                /\ i' = i + 1
                /\ total_invested' = FAdd(total_invested, invested)
                /\ \E price \in Quotes(row.symbol) :
                     /\ prices' = Append(prices, price)
                     /\ IF price = NA
                        THEN /\ investment_data' = Append(investment_data,
                                                          FailedRow(row.symbol, invested))
                             /\ total_value' = total_value
                        ELSE /\ investment_data' = Append(investment_data,
                                                          FetchedRow(row.symbol, invested, price))
                             /\ total_value' = FAdd(total_value,
                                                    FMul(price, FDiv(invested, price)))
  /\ UNCHANGED <<files, chat_history, widgets, frames, adding, summary, totals, advice>>

\* total_invested > 0, false of nan
Positive(x) == IsNum(x) /\ x.n > 0

\* lines 161-170, entered when the loop has run out of rows
PortfolioTotals ==
  /\ pc = "tracker"
  /\ i > Len(investments)
  /\ pc' = "breakdown"
  /\ IF investment_data # <<>>
     THEN /\ total_gain' = FSub(total_value, total_invested)
          /\ total_gain_pct' = IF Positive(total_invested)
                               THEN FMul(FDiv(FSub(total_value, total_invested), total_invested),
                                         F(100))
                               ELSE F(0)
     ELSE UNCHANGED totals
  /\ UNCHANGED <<files, chat_history, widgets, frames, adding, summary, tracker, advice>>

\* the groups of groupby('category') / the index of value_counts(): NaN is
\* not a group
CategoriesOf(df) == {df[j].category.s : j \in {x \in 1..Len(df) : df[x].category.k = "str"}}

OfCategory(df, c) == SelectSeq(df, LAMBDA r : r.category.k = "str" /\ r.category.s = c)

\* expenses.groupby('category')['amount'].sum()
groupby_sum(df) == [c \in CategoriesOf(df) |-> SumAmounts(OfCategory(df, c))]

\* expenses['category'].value_counts().to_dict()
value_counts(df) == [c \in CategoriesOf(df) |-> Len(OfCategory(df, c))]

\* lines 174-183
ExpenseBreakdown ==
  /\ pc = "breakdown"
  /\ pc' = "feedback"
  /\ category_totals' = IF expenses # <<>>
                        THEN [set |-> TRUE, dict |-> groupby_sum(expenses)]
                        ELSE category_totals
  /\ UNCHANGED <<files, chat_history, widgets, frames, adding, summary, tracker, totals,
                 category_breakdown, feedback>>

\* ', '.join(...) raises TypeError on an item that is not a str
join_raises(cells) == \E j \in 1..Len(cells) : cells[j].k # "str"

SymbolsOf(data) == [j \in 1..Len(data) |-> data[j].Symbol]

\* lines 188-226.  have_key: st.secrets holds an API key; completion_ok: the
\* chat completion returned.
Feedback ==
  /\ pc = "feedback"
  /\ pc' = "chat"
  /\ IF weekly # <<>> \/ investments # <<>>
     THEN \E have_key \in BOOLEAN, completion_ok \in BOOLEAN :
            IF ~have_key
            THEN /\ feedback' = "OpenAI API key not configured"
                 /\ UNCHANGED category_breakdown
            ELSE IF investment_data # <<>> /\ join_raises(SymbolsOf(investment_data))
            THEN /\ feedback' = "Unable to generate feedback"
                 /\ UNCHANGED category_breakdown
            ELSE /\ category_breakdown' = IF weekly # <<>>
                                          THEN [set |-> TRUE, dict |-> value_counts(weekly)]
                                          ELSE category_breakdown
                 /\ feedback' = IF completion_ok THEN "advice"
                                ELSE "Unable to generate feedback"
     ELSE /\ feedback' = "Add some expenses or investments"
          /\ UNCHANGED category_breakdown
  /\ UNCHANGED <<files, chat_history, widgets, frames, adding, summary, tracker, totals,
                 category_totals>>

SymbolColumn(df) == [j \in 1..Len(df) |-> df[j].symbol]

\* lines 231-256.  The context string is built between the append of the
\* user's entry and the try: a join that raises there stops the script.
Chat ==
  /\ pc = "chat"
  /\ IF user_input = ""
     THEN /\ pc' = "display"
          /\ UNCHANGED chat_history
     ELSE LET asked == Append(chat_history, <<"You", user_input>>)
          IN IF investments # <<>> /\ join_raises(SymbolColumn(investments))
             THEN /\ pc' = "crashed"
                  /\ chat_history' = asked
             ELSE /\ pc' = "display"
                  /\ \E completion_ok \in BOOLEAN :
                       chat_history' = Append(asked, <<"Bot", IF completion_ok THEN "answer"
                                                              ELSE "Error">>)
  /\ UNCHANGED <<files, widgets, frames, adding, summary, tracker, totals, advice>>

\* lines 259-263
DisplayHistory ==
  /\ pc = "display"
  /\ pc' = "done"
  /\ UNCHANGED <<files, chat_history, widgets, frames, adding, summary, tracker, totals, advice>>

Next ==
  \/ Rerun
  \/ LoadData
  \/ AddExpense
  \/ WeeklySummary
  \/ AddInvestment
  \/ TrackerRow
  \/ PortfolioTotals
  \/ ExpenseBreakdown
  \/ Feedback
  \/ Chat
  \/ DisplayHistory

Spec == Init /\ [][Next]_vars

\* ------------------------------------------------------------ properties
Last(q) == q[Len(q)]

IsPrefix(a, b) == Len(a) <= Len(b) /\ \A j \in 1..Len(a) : a[j] = b[j]

\* where the pass stands
FormsPending == {"idle", "load", "add_expense"}
WeeklyDone == pc \notin {"idle", "load", "add_expense", "weekly"}
InvestmentHandled == pc \notin {"idle", "load", "add_expense", "weekly", "add_investment"}
TrackerDone == InvestmentHandled /\ i > Len(investments)

\* C1: no step removes, edits or reorders a record of either file: the rows a
\* file held before the step are a prefix of the rows it holds after it.
C1_AppendOnly ==
  [][/\ IsPrefix(expenses_file.rows, expenses_file'.rows)
     /\ IsPrefix(investments_file.rows, investments_file'.rows)]_vars

\* C2: after an append that reported success, loading that kind from its file
\* gives a sequence whose last element equals the appended record in every
\* field.
C2_RoundTrip ==
  /\ flash = "Expense added!" =>
       /\ load_expenses(expenses_file) # <<>>
       /\ Last(load_expenses(expenses_file)) = new_row
  /\ flash = "Investment added!" =>
       /\ load_investments(investments_file) # <<>>
       /\ Last(load_investments(investments_file)) = new_row

\* C3: once a submission has been handled, the DataFrame the rest of the pass
\* computes from holds exactly the records of its file, whether the write
\* succeeded or failed.
C3_LedgerMatchesStore ==
  /\ (submitted /\ pc \notin FormsPending) => expenses = load_expenses(expenses_file)
  /\ (invest_submit /\ InvestmentHandled) => investments = load_investments(investments_file)

\* the metrics of one investment at one price, as the data model defines them
C4_Metrics(invested, price) ==
  LET quantity == FDiv(invested, price)
      value == FMul(price, quantity)
      gain == FSub(value, invested)
  IN [ApproxShares |-> round(quantity, 4), CurrentPrice |-> round(price, 2),
      CurrentValue |-> round(value, 2), GainLoss |-> round(gain, 2),
      GainLossPct |-> round(FMul(FDiv(gain, invested), F(100)), 2)]

\* C4: when the tracker loop has finished, the table has one row per
\* investment record in ledger order; every row carries its record's symbol
\* and invested amount; a row whose fetch failed has N/A in the five
\* price-derived fields, and a row whose fetch succeeded has the metrics of its
\* own record at its own price, whatever happened to the other fetches.
C4_TrackerRows ==
  TrackerDone =>
    /\ Len(investment_data) = Len(investments)
    /\ \A j \in 1..Len(investments) :
         LET r == investment_data[j]
             invested == float(investments[j].amount_invested)
             m == C4_Metrics(invested, prices[j])
         IN /\ r.Symbol = investments[j].symbol
            /\ r.Invested = round(invested, 2)
            /\ IF prices[j] = NA
               THEN /\ r.ApproxShares = NA /\ r.CurrentPrice = NA /\ r.CurrentValue = NA
                    /\ r.GainLoss = NA /\ r.GainLossPct = NA
               ELSE /\ r.ApproxShares = m.ApproxShares /\ r.CurrentPrice = m.CurrentPrice
                    /\ r.CurrentValue = m.CurrentValue /\ r.GainLoss = m.GainLoss
                    /\ r.GainLossPct = m.GainLossPct

\* a finished loop over two or more investments, one fetch failed and another
\* succeeded
C4_Witness ==
  /\ TrackerDone
  /\ Len(investments) >= 2
  /\ \E j, x \in 1..Len(prices) : prices[j] = NA /\ prices[x] # NA

\* C5: no pass is stopped by an exception: the script never ends anywhere but
\* after the chat-history display.
C5_PassCompletes == pc # "crashed"

RECURSIVE C6_Sum(_)
C6_Sum(idx) ==
  IF idx = {} THEN 0
  ELSE LET j == CHOOSE x \in idx : TRUE
       IN expenses[j].amount.n + C6_Sum(idx \ {j})

\* C6: the weekly view holds exactly the expenses dated today - 7 or later, in
\* ledger order (the boundary day included, every earlier day excluded), and
\* total_spent is the sum of their amounts.
C6_WeeklyView ==
  WeeklyDone =>
    LET idx == {j \in 1..Len(expenses) : expenses[j].date.n >= Today - 7}
        rank(j) == Cardinality({x \in idx : x <= j})
    IN /\ Len(weekly) = Cardinality(idx)
       /\ \A j \in idx : weekly[rank(j)] = expenses[j]
       /\ total_spent = C6_Sum(idx)

\* a week's view that takes a record of the boundary day and leaves out an
\* earlier one
C6_Witness ==
  /\ WeeklyDone
  /\ \E j \in 1..Len(expenses) : expenses[j].date.n = Today - 7 /\ expenses[j].amount.n > 0
  /\ \E j \in 1..Len(expenses) : expenses[j].date.n < Today - 7 /\ expenses[j].amount.n > 0
  /\ Len(weekly) < Len(expenses)
  /\ total_spent > 0

\* C7: the row of an investment of amount 0 whose price was fetched reports
\* its gain percentage as zero or as unavailable, never as nan or infinite.
C7_ZeroInvested ==
  \A j \in 1..Len(investment_data) :
    (float(investments[j].amount_invested) = F(0) /\ prices[j] # NA)
      => investment_data[j].GainLossPct \in {F(0), NA}

RECURSIVE C8_SumValues(_)
C8_SumValues(d) ==
  IF DOMAIN d = {} THEN 0
  ELSE LET c == CHOOSE x \in DOMAIN d : TRUE
       IN d[c] + C8_SumValues([x \in DOMAIN d \ {c} |-> d[x]])

\* C8: the chart's category_totals and the breakdown of the advice context
\* have as keys exactly the categories present in the expenses they are
\* derived from, and their values sum to the total of those expenses.
C8_Breakdown ==
  /\ category_totals.set =>
       /\ DOMAIN category_totals.dict = {expenses[j].category.s : j \in 1..Len(expenses)}
       /\ C8_SumValues(category_totals.dict) = SumAmounts(expenses)
  /\ category_breakdown.set =>
       /\ DOMAIN category_breakdown.dict = {weekly[j].category.s : j \in 1..Len(weekly)}
       /\ C8_SumValues(category_breakdown.dict) = SumAmounts(weekly)

RECURSIVE C9_SumGains(_)
C9_SumGains(rows) ==
  IF rows = <<>> THEN F(0)
  ELSE IF rows[1].GainLoss = NA THEN C9_SumGains(Tail(rows))
  ELSE FAdd(rows[1].GainLoss, C9_SumGains(Tail(rows)))

\* C9: the portfolio's total gain is the sum of the Gain/Loss of the rows whose
\* price was fetched, and the total gain percentage is 0 when nothing is
\* invested.
C9_TotalGain ==
  total_gain # NA =>
    /\ total_gain = C9_SumGains(investment_data)
    /\ total_invested = F(0) => total_gain_pct = F(0)

\* C10: between passes the chat history has even length and alternates You,
\* Bot, You, Bot, ...
C10_Alternating ==
  pc \in {"idle", "display", "done", "crashed"} =>
    /\ Len(chat_history) % 2 = 0
    /\ \A j \in 1..Len(chat_history) :
         chat_history[j][1] = (IF j % 2 = 1 THEN "You" ELSE "Bot")

====
